---- MODULE Spec2Model ----
(***************************************************************************)
(* The real-time hub of src/backend/websocket_manager.py: WebSocketManager *)
(* with its registry of client connections (active_connections), its map   *)
(* of background update tasks (update_tasks) and the update loops those    *)
(* tasks run.  asyncio runs one coroutine at a time and switches only at   *)
(* an await that suspends, so every action below is the code between two   *)
(* suspension points.                                                      *)
(*                                                                         *)
(* Strings the code builds and takes apart (task keys, coin identifiers)   *)
(* are sequences of tokens: the coin "btc" is <<"btc">>, the coin          *)
(* "indicators_btc" is <<"indicators_", "btc">> and the task key           *)
(* f"price_{coin}" is <<"price_">> \o coin.                                *)
(*                                                                         *)
(* Cancellation follows asyncio on Python 3.8 and later, where             *)
(* CancelledError is a BaseException and so passes every                   *)
(* `except Exception` of the loops.                                        *)
(***************************************************************************)
EXTENDS Integers, Sequences, FiniteSets, TLC

VARIABLES
    active_connections, \* WebSocketManager.active_connections: list of clients
    subscriptions,      \* ClientSubscription.subscriptions of each client object
    watched_coins,      \* ClientSubscription.watched_coins of each client object
    update_tasks,       \* WebSocketManager.update_tasks: task key -> task
    price_cache,        \* WebSocketManager.price_cache: coin -> last fetched data
    tasks,              \* every asyncio task created so far, in creation order
    clients,            \* the client objects connect() has built and returned
    calls,              \* unsubscribe_client calls suspended in their send
    issued,             \* history: the (type, coin) pairs each connection holds
    raced,              \* history: keys subscribed during their last unsubscribe
    owed,               \* history: sends a running broadcast still owes
    sent,               \* the last message handed to each client's websocket
    wait,               \* the delay of the asyncio.sleep each task last began
    streak,             \* history: fetches of a task that failed in a row
    fetched,            \* the data each task's last successful fetch returned
    serial,             \* history: subscribes made during an unsubscribe
    failed,             \* history: sends of a running broadcast that failed
    order,              \* history: the fetches made and the ones each client got
    client_id,          \* ClientSubscription.client_id of each client object
    active_alert_monitors, \* simple_backend.active_alert_monitors: id -> task
    monitors,           \* every monitor_price_alert task created so far
    due                 \* history: the alerts owed to each connection

\* the program's state
hub == <<active_connections, subscriptions, watched_coins, update_tasks,
         price_cache, tasks, clients, calls>>
\* what the history specification records about a behaviour
history == <<issued, raced, owed>>
\* the client ids, the alert monitors of simple_backend.py and two further
\* records, written by the specifications of the last sections
extra == <<failed, order, client_id, active_alert_monitors, monitors,
           due>>
\* what the hub hands out (messages, sleeps) and further records of the
\* behaviour, written by the specifications further down
journal == <<sent, wait, streak, fetched, serial, extra>>

\* all that the actions of the hub leave alone
rest == <<history, journal>>

vars == <<hub, rest>>

-----------------------------------------------------------------------------
(* Bounds of the model *)

\* tasks ever created in one behaviour
MaxTasks == 2
\* unsubscribe calls suspended at the same time
MaxCalls == 2

\* the tasks, numbered in the order of their creation
TaskIds == 1..MaxTasks

\* the client objects (one per accepted websocket)
Clients == {"c1", "c2"}

\* coin identifiers a client may name; the second one contains the text
\* of a task-key prefix
Coins == {<<"btc">>, <<"indicators_", "btc">>}

\* the coin lists a subscribe message may carry
CoinLists == {<<>>} \cup {<<coin>> : coin \in Coins}

\* the values a price fetch may return
Prices == {"p1", "p2"}

-----------------------------------------------------------------------------
(* SubscriptionType *)

PRICE_UPDATES == "price_updates"
PORTFOLIO_UPDATES == "portfolio_updates"
NEWS_UPDATES == "news_updates"
ALERTS == "alerts"
TECHNICAL_INDICATORS == "technical_indicators"

SubscriptionType ==
    {PRICE_UPDATES, PORTFOLIO_UPDATES, NEWS_UPDATES, ALERTS, TECHNICAL_INDICATORS}

\* the types the clients of Spec ask for
RequestedTypes == {TECHNICAL_INDICATORS}

\* a value that is no coin: the `coin=None` of a broadcast, the coin of the news loop
NoCoin == <<>>
NoClient == "none"
\* no fetch of the task has returned data yet
NoData == "none"
\* nothing has been handed to a websocket yet
NoMessage == [type |-> "none"]
\* a client object not built yet has no client_id
NoId == "none"
\* nothing fetched, nothing handed to anyone
NoOrder == [made |-> 0, carried |-> <<>>, got |-> <<>>]

-----------------------------------------------------------------------------
(* Strings as token sequences *)

\* str.startswith(prefix)
StartsWith(s, prefix) == Len(s) > 0 /\ s[1] = prefix

\* str.replace(old, ''): every occurrence of old is removed
Replace(s, old) == SelectSeq(s, LAMBDA tok : tok # old)

\* f"price_{coin}"
PriceKey(coin) == <<"price_">> \o coin
\* f"indicators_{coin}"
IndicatorsKey(coin) == <<"indicators_">> \o coin
NewsKey == <<"news_updates">>
\* the task key _start_update_tasks makes of a coin under a type
FeedKeyOf(subscription_type, coin) ==
    IF subscription_type = PRICE_UPDATES THEN PriceKey(coin)
                                         ELSE IndicatorsKey(coin)

SeqToSet(s) == {s[i] : i \in 1..Len(s)}
-----------------------------------------------------------------------------
(* Subscriber tests, written in each loop and in _cleanup_unused_tasks *)

\* any(<stype> in client.subscriptions and coin in client.watched_coins
\*     for client in self.active_connections), over the list conns
HasSubscribers(conns, stype, coin) ==
    \E i \in 1..Len(conns) :
        /\ stype \in subscriptions[conns[i]]
        /\ coin \in watched_coins[conns[i]]

\* any(NEWS_UPDATES in client.subscriptions for client in self.active_connections)
HasNewsSubscribers(conns) ==
    \E i \in 1..Len(conns) : NEWS_UPDATES \in subscriptions[conns[i]]

-----------------------------------------------------------------------------
(* asyncio tasks.  A task is [loop, coin, pc, idx, target]: the loop it    *)
(* runs and its coin argument, where it is suspended, and while it is in   *)
(* the send of a broadcast the list iterator's position and the client     *)
(* being sent to.                                                          *)

Finished(task) == task.pc \in {"done", "cancelled"}

\* a task that still runs its loop: not finished and not asked to cancel
Live(task) == task.pc \in {"start", "fetch", "send", "sleep"}

\* asyncio.create_task(self._<loop>_update_loop(coin)): scheduled, not yet run
NewTask(loop, coin) ==
    [loop |-> loop, coin |-> coin, pc |-> "start", idx |-> 0,
     target |-> NoClient]

\* task.cancel(): nothing for a finished task; otherwise the task's next
\* resumption throws CancelledError into the coroutine where it is suspended
CancelTask(task) ==
    IF Finished(task) THEN task
    ELSE [task EXCEPT !.pc = "cancelling", !.idx = 0, !.target = NoClient]

\* changed: CancelledError derives from Exception
ExceptExceptionCatches_All(exc) == TRUE

\* whether `except Exception` catches exc: CancelledError derives from
\* BaseException
ExceptExceptionCatches(exc) == exc # "CancelledError"

\* the key a task was stored under by _start_update_tasks
KeyOfTask(task) ==
    IF task.loop = "price" THEN PriceKey(task.coin)
    ELSE IF task.loop = "indicators" THEN IndicatorsKey(task.coin)
    ELSE NewsKey

-----------------------------------------------------------------------------
(* _cleanup_unused_tasks *)

\* the branch of the loop over update_tasks.items() that decides one key
KeyUnused(conns, key) ==
    IF StartsWith(key, "price_")
    THEN ~HasSubscribers(conns, PRICE_UPDATES, Replace(key, "price_"))
    ELSE IF StartsWith(key, "indicators_")
    THEN ~HasSubscribers(conns, TECHNICAL_INDICATORS,
                         Replace(key, "indicators_"))
    ELSE IF key = NewsKey
    THEN ~HasNewsSubscribers(conns)
    ELSE FALSE

\* tasks_to_remove, as a set
TasksToRemove(conns) == {key \in DOMAIN update_tasks : KeyUnused(conns, key)}

\* changed: the keys collected are cancelled but never deleted
CleanupUpdateTasks_NoDelete(conns) == update_tasks

\* changed: only one of the keys collected is deleted in a call
CleanupUpdateTasks_OnlyOne(conns) ==
    IF TasksToRemove(conns) = {} THEN update_tasks
    ELSE LET one == CHOOSE key \in TasksToRemove(conns) : TRUE
         IN  [key \in DOMAIN update_tasks \ {one} |-> update_tasks[key]]

\* update_tasks after `del self.update_tasks[task_key]` for each key collected
CleanupUpdateTasks(conns) ==
    [key \in DOMAIN update_tasks \ TasksToRemove(conns) |-> update_tasks[key]]

\* the tasks after task.cancel() on each task collected
CleanupTasks(conns) ==
    [i \in DOMAIN tasks |->
        IF \E key \in TasksToRemove(conns) : update_tasks[key] = i
        THEN CancelTask(tasks[i])
        ELSE tasks[i]]

-----------------------------------------------------------------------------
(* _start_update_tasks *)

\* changed: the task is created without the `not in self.update_tasks` test
StartTask_Unguarded(st, task_key, loop, coin) ==
    [ut |-> [k \in DOMAIN st.ut \cup {task_key} |->
                IF k = task_key THEN Len(st.ts) + 1 ELSE st.ut[k]],
     ts |-> Append(st.ts, NewTask(loop, coin))]

\* `if task_key not in self.update_tasks: self.update_tasks[task_key] =
\* asyncio.create_task(...)` on st = [ut |-> update_tasks, ts |-> tasks]
StartTask(st, task_key, loop, coin) ==
    IF task_key \in DOMAIN st.ut
    THEN st
    ELSE [ut |-> [k \in DOMAIN st.ut \cup {task_key} |->
                     IF k = task_key THEN Len(st.ts) + 1 ELSE st.ut[k]],
          ts |-> Append(st.ts, NewTask(loop, coin))]

\* `for coin in coins` of the price and the indicators branch
RECURSIVE StartCoinTasks(_, _, _)
StartCoinTasks(loop, coins, st) ==
    IF coins = <<>> THEN st
    ELSE LET coin == Head(coins)
             task_key == IF loop = "price" THEN PriceKey(coin)
                                           ELSE IndicatorsKey(coin)
         IN  StartCoinTasks(loop, Tail(coins),
                            StartTask(st, task_key, loop, coin))

\* changed: the news branch starts a task for every coin of the request,
\* under the key f"news_updates{coin}"
RECURSIVE StartNewsPerCoin(_, _)
StartNewsPerCoin(coins, st) ==
    IF coins = <<>> THEN st
    ELSE StartNewsPerCoin(Tail(coins),
                          StartTask(st, NewsKey \o Head(coins), "news",
                                    NoCoin))

StartUpdateTasks_NewsPerCoin(subscription_type, coins) ==
    LET st0 == [ut |-> update_tasks, ts |-> tasks]
    IN  IF subscription_type = PRICE_UPDATES
        THEN StartCoinTasks("price", coins, st0)
        ELSE IF subscription_type = NEWS_UPDATES
        THEN StartNewsPerCoin(coins, st0)
        ELSE IF subscription_type = TECHNICAL_INDICATORS
        THEN StartCoinTasks("indicators", coins, st0)
        ELSE st0

StartUpdateTasks(subscription_type, coins) ==
    LET st0 == [ut |-> update_tasks, ts |-> tasks]
    IN  IF subscription_type = PRICE_UPDATES
        THEN StartCoinTasks("price", coins, st0)
        ELSE IF subscription_type = NEWS_UPDATES
        THEN StartTask(st0, NewsKey, "news", NoCoin)
        ELSE IF subscription_type = TECHNICAL_INDICATORS
        THEN StartCoinTasks("indicators", coins, st0)
        ELSE st0

-----------------------------------------------------------------------------
(* broadcast_to_subscribers *)

\* the two `continue` tests of the loop body: the client is sent the message
Matches(client, subscription_type, coin) ==
    /\ subscription_type \in subscriptions[client]
    /\ (coin = NoCoin \/ coin \in watched_coins[client])

\* the position of the first client at or after `from` that is sent the
\* message, 0 when the list iterator runs off the end of the list as it is now
NextRecipient(from, subscription_type, coin) ==
    LET hits == {i \in from..Len(active_connections) :
                    Matches(active_connections[i], subscription_type, coin)}
    IN  IF hits = {} THEN 0
        ELSE CHOOSE i \in hits : \A j \in hits : i <= j

\* the subscription type a loop broadcasts under
LoopType(loop) ==
    IF loop = "price" THEN PRICE_UPDATES
    ELSE IF loop = "indicators" THEN TECHNICAL_INDICATORS
    ELSE NEWS_UPDATES

\* the for loop taken up at list position `from`: it runs to the next await
\* of send_personal_message, or off the end of the list and on to the
\* asyncio.sleep of the update loop (disconnected_clients is empty:
\* send_personal_message lets no exception out)
BroadcastFrom(task, from) ==
    LET i == NextRecipient(from, LoopType(task.loop), task.coin)
    IN  IF i = 0
        THEN [task EXCEPT !.pc = "sleep", !.idx = 0, !.target = NoClient]
        ELSE [task EXCEPT !.pc = "send", !.idx = i,
                          !.target = active_connections[i]]

-----------------------------------------------------------------------------
(* The state after WebSocketManager.__init__ *)

Init ==
    /\ active_connections = <<>>
    /\ subscriptions = [c \in Clients |-> {}]
    /\ watched_coins = [c \in Clients |-> {}]
    /\ update_tasks = <<>>
    /\ price_cache = <<>>
    /\ tasks = <<>>
    /\ clients = {}
    /\ calls = {}
    /\ issued = [c \in Clients |-> {}]
    /\ raced = {}
    /\ owed = {}
    /\ sent = [c \in Clients |-> NoMessage]
    /\ wait = [t \in TaskIds |-> 0]
    /\ streak = [t \in TaskIds |-> 0]
    /\ fetched = [t \in TaskIds |-> NoData]
    /\ serial = {}
    /\ failed = {}
    /\ order = NoOrder
    /\ client_id = [c \in Clients |-> NoId]
    /\ active_alert_monitors = <<>>
    /\ monitors = <<>>
    /\ due = {}

-----------------------------------------------------------------------------
(* connect, disconnect *)

\* connect: the websocket is accepted, the client object is built with empty
\* sets and appended; the welcome send that follows touches nothing of the
\* hub, and connect returns the client
Connect(c) ==
    /\ c \notin clients
    /\ clients' = clients \cup {c}
    /\ active_connections' = Append(active_connections, c)
    /\ UNCHANGED <<subscriptions, watched_coins, update_tasks, price_cache,
                   tasks, calls>>

\* list.remove(client) behind `if client in self.active_connections`
RemoveClient(conns, c) ==
    IF c \in SeqToSet(conns)
    THEN LET first == CHOOSE i \in 1..Len(conns) :
                         conns[i] = c /\ \A j \in 1..(i - 1) : conns[j] # c
         IN  [i \in 1..(Len(conns) - 1) |->
                 IF i < first THEN conns[i] ELSE conns[i + 1]]
    ELSE conns

Disconnect(c) ==
    /\ c \in clients
    /\ active_connections' = RemoveClient(active_connections, c)
    /\ update_tasks' = CleanupUpdateTasks(active_connections')
    /\ tasks' = CleanupTasks(active_connections')
    /\ UNCHANGED <<subscriptions, watched_coins, price_cache, clients, calls>>

-----------------------------------------------------------------------------
(* subscribe_client, unsubscribe_client *)

\* subscribe_client: _start_update_tasks has no await that suspends and runs
\* within this step; the confirmation send that follows touches nothing of
\* the hub
Subscribe(c, subscription_type, coins) ==
    LET st == StartUpdateTasks(subscription_type, coins)
    IN  /\ c \in clients
        /\ Len(st.ts) <= MaxTasks
        /\ subscriptions' =
               [subscriptions EXCEPT ![c] = @ \cup {subscription_type}]
        /\ watched_coins' =
               [watched_coins EXCEPT ![c] = @ \cup SeqToSet(coins)]
        /\ update_tasks' = st.ut
        /\ tasks' = st.ts
        /\ UNCHANGED <<active_connections, price_cache, clients, calls>>

Call(c, subscription_type) == [client |-> c, stype |-> subscription_type]

\* unsubscribe_client up to its await of the confirmation send
Unsubscribe(c, subscription_type) ==
    /\ c \in clients
    /\ Call(c, subscription_type) \notin calls
    /\ Cardinality(calls) < MaxCalls
    /\ subscriptions' =
           [subscriptions EXCEPT ![c] = @ \ {subscription_type}]
    /\ calls' = calls \cup {Call(c, subscription_type)}
    /\ UNCHANGED <<active_connections, watched_coins, update_tasks,
                   price_cache, tasks, clients>>

\* the confirmation send is over (sent, or failed and logged):
\* _cleanup_unused_tasks runs and unsubscribe_client returns
UnsubscribeReturn(call) ==
    /\ call \in calls
    /\ update_tasks' = CleanupUpdateTasks(active_connections)
    /\ tasks' = CleanupTasks(active_connections)
    /\ calls' = calls \ {call}
    /\ UNCHANGED <<active_connections, subscriptions, watched_coins,
                   price_cache, clients>>

-----------------------------------------------------------------------------
(* The update loops: _price_update_loop, _indicators_update_loop,          *)
(* _news_update_loop                                                       *)

\* has_subscribers at the top of the loop body
LoopHasSubscribers(task) ==
    IF task.loop = "news"
    THEN HasNewsSubscribers(active_connections)
    ELSE HasSubscribers(active_connections, LoopType(task.loop), task.coin)

\* the task is resumed at the top of `while True` (its first run, or its
\* sleep is over): it breaks out of the loop or goes on to await its fetch
TaskTick(t) ==
    /\ t \in DOMAIN tasks
    /\ tasks[t].pc \in {"start", "sleep"}
    /\ tasks' = [tasks EXCEPT ![t].pc =
                    IF LoopHasSubscribers(tasks[t]) THEN "fetch" ELSE "done"]
    /\ UNCHANGED <<active_connections, subscriptions, watched_coins,
                   update_tasks, price_cache, clients, calls>>

\* changed: the price loop caches only the first data of a coin
FetchData_KeepsFirst(t, data) ==
    /\ t \in DOMAIN tasks
    /\ tasks[t].pc = "fetch"
    /\ price_cache' =
           IF tasks[t].loop = "price" /\ tasks[t].coin \notin DOMAIN price_cache
           THEN [coin \in DOMAIN price_cache \cup {tasks[t].coin} |->
                    IF coin = tasks[t].coin THEN data ELSE price_cache[coin]]
           ELSE price_cache
    /\ tasks' = [tasks EXCEPT ![t] = BroadcastFrom(tasks[t], 1)]
    /\ UNCHANGED <<active_connections, subscriptions, watched_coins,
                   update_tasks, clients, calls>>

\* the fetch returns data: the price loop caches it, and the broadcast runs
\* to its first send
FetchData(t, data) ==
    /\ t \in DOMAIN tasks
    /\ tasks[t].pc = "fetch"
    /\ price_cache' =
           IF tasks[t].loop = "price"
           THEN [coin \in DOMAIN price_cache \cup {tasks[t].coin} |->
                    IF coin = tasks[t].coin THEN data ELSE price_cache[coin]]
           ELSE price_cache
    /\ tasks' = [tasks EXCEPT ![t] = BroadcastFrom(tasks[t], 1)]
    /\ UNCHANGED <<active_connections, subscriptions, watched_coins,
                   update_tasks, clients, calls>>

\* changed: a fetch that gives nothing ends the loop
FetchNothing_Breaks(t) ==
    /\ t \in DOMAIN tasks
    /\ tasks[t].pc = "fetch"
    /\ tasks' = [tasks EXCEPT ![t].pc = "done"]
    /\ UNCHANGED <<active_connections, subscriptions, watched_coins,
                   update_tasks, price_cache, clients, calls>>

\* the fetch gives nothing (None, success false, no new article) or raises
\* (the loop's `except Exception` logs it): the loop goes to a sleep
FetchNothing(t) ==
    /\ t \in DOMAIN tasks
    /\ tasks[t].pc = "fetch"
    /\ tasks' = [tasks EXCEPT ![t].pc = "sleep"]
    /\ UNCHANGED <<active_connections, subscriptions, watched_coins,
                   update_tasks, price_cache, clients, calls>>

\* changed: the for loop takes the same item again
SendReturn_Resends(t) ==
    /\ t \in DOMAIN tasks
    /\ tasks[t].pc = "send"
    /\ tasks' = [tasks EXCEPT ![t] = BroadcastFrom(tasks[t], tasks[t].idx)]
    /\ UNCHANGED <<active_connections, subscriptions, watched_coins,
                   update_tasks, price_cache, clients, calls>>

\* send_personal_message returns (the text was sent, or the send raised and
\* was logged): the for loop of the broadcast takes its next item
SendReturn(t) ==
    /\ t \in DOMAIN tasks
    /\ tasks[t].pc = "send"
    /\ tasks' = [tasks EXCEPT ![t] = BroadcastFrom(tasks[t], tasks[t].idx + 1)]
    /\ UNCHANGED <<active_connections, subscriptions, watched_coins,
                   update_tasks, price_cache, clients, calls>>

\* a task asked to cancel is resumed with CancelledError at its await; the
\* handlers around it are `except Exception` (send_personal_message, the
\* broadcast, the loop, whose handler sleeps and loops again)
TaskCancelled(t) ==
    /\ t \in DOMAIN tasks
    /\ tasks[t].pc = "cancelling"
    /\ tasks' = [tasks EXCEPT ![t].pc =
                    IF ExceptExceptionCatches("CancelledError")
                    THEN "sleep" ELSE "cancelled"]
    /\ UNCHANGED <<active_connections, subscriptions, watched_coins,
                   update_tasks, price_cache, clients, calls>>

-----------------------------------------------------------------------------
(* Spec: the hub under any caller.  Every call may be made on every client *)
(* object connect has returned, also after its disconnect and while        *)
(* another call on it is suspended.                                        *)

Next ==
    \/ \E c \in Clients : Connect(c) /\ UNCHANGED rest
    \/ \E c \in Clients : Disconnect(c) /\ UNCHANGED rest
    \/ \E c \in Clients, ty \in RequestedTypes, coins \in CoinLists :
           Subscribe(c, ty, coins) /\ UNCHANGED rest
    \/ \E c \in Clients, ty \in RequestedTypes :
           Unsubscribe(c, ty) /\ UNCHANGED rest
    \/ \E call \in calls : UnsubscribeReturn(call) /\ UNCHANGED rest
    \/ \E t \in TaskIds : TaskTick(t) /\ UNCHANGED rest
    \/ \E t \in TaskIds, data \in Prices : FetchData(t, data) /\ UNCHANGED rest
    \/ \E t \in TaskIds : FetchNothing(t) /\ UNCHANGED rest
    \/ \E t \in TaskIds : SendReturn(t) /\ UNCHANGED rest
    \/ \E t \in TaskIds : TaskCancelled(t) /\ UNCHANGED rest

Spec == Init /\ [][Next]_vars
-----------------------------------------------------------------------------
(* SpecSession: the hub as websocket_endpoint drives it.  The handler of a *)
(* connection awaits each call before it receives the next message, calls  *)
(* disconnect when its receive loop ends, and makes no call after that.    *)

Registered(c) == c \in SeqToSet(active_connections)

\* the handler of c is in websocket.receive_text()
Idle(c) == Registered(c) /\ \A call \in calls : call.client # c

\* poller steps, the same under every caller
PollerStep ==
    \/ \E t \in TaskIds : TaskTick(t)
    \/ \E t \in TaskIds : FetchNothing(t)
    \/ \E t \in TaskIds : TaskCancelled(t)

NextSession ==
    \/ \E c \in Clients : Connect(c) /\ UNCHANGED rest
    \/ \E c \in Clients : Idle(c) /\ Disconnect(c) /\ UNCHANGED rest
    \/ \E c \in Clients, ty \in RequestedTypes, coins \in CoinLists :
           Idle(c) /\ Subscribe(c, ty, coins) /\ UNCHANGED rest
    \/ \E c \in Clients, ty \in RequestedTypes :
           Idle(c) /\ Unsubscribe(c, ty) /\ UNCHANGED rest
    \/ \E call \in calls : UnsubscribeReturn(call) /\ UNCHANGED rest
    \/ \E t \in TaskIds, data \in Prices : FetchData(t, data) /\ UNCHANGED rest
    \/ \E t \in TaskIds : SendReturn(t) /\ UNCHANGED rest
    \/ PollerStep /\ UNCHANGED rest

SpecSession == Init /\ [][NextSession]_vars

-----------------------------------------------------------------------------
(* Three records of the behaviour so far follow, each written by its own   *)
(* specification of the hub under websocket_endpoint and read by no action *)
(* of the hub.                                                             *)
(*                                                                         *)
(* SpecIssued.  issued[c]: the (type, coin) pairs c holds by its own       *)
(* requests: those named in a subscribe since its last unsubscribe of the  *)
(* type, none after its disconnect.                                        *)

NextIssued ==
    \/ \E c \in Clients : Connect(c) /\ UNCHANGED rest
    \/ \E c \in Clients :
           /\ Idle(c)
           /\ Disconnect(c)
           /\ issued' = [issued EXCEPT ![c] = {}]
           /\ UNCHANGED <<raced, owed, journal>>
    \/ \E c \in Clients, ty \in RequestedTypes, coins \in CoinLists :
           /\ Idle(c)
           /\ Subscribe(c, ty, coins)
           /\ issued' = [issued EXCEPT ![c] =
                            @ \cup {<<ty, coin>> : coin \in SeqToSet(coins)}]
           /\ UNCHANGED <<raced, owed, journal>>
    \/ \E c \in Clients, ty \in RequestedTypes :
           /\ Idle(c)
           /\ Unsubscribe(c, ty)
           /\ issued' = [issued EXCEPT ![c] = {p \in @ : p[1] # ty}]
           /\ UNCHANGED <<raced, owed, journal>>
    \/ \E call \in calls : UnsubscribeReturn(call) /\ UNCHANGED rest
    \/ \E t \in TaskIds, data \in Prices : FetchData(t, data) /\ UNCHANGED rest
    \/ \E t \in TaskIds : SendReturn(t) /\ UNCHANGED rest
    \/ PollerStep /\ UNCHANGED rest

SpecIssued == Init /\ [][NextIssued]_vars

\* the steps of the task t.  The event loop resumes every task that can
\* run: a sleep ends, and a fetch or a send returns or raises.
PollerOf(t) ==
    /\ \/ TaskTick(t)
       \/ \E data \in Prices : FetchData(t, data)
       \/ FetchNothing(t)
       \/ SendReturn(t)
       \/ TaskCancelled(t)
    /\ UNCHANGED rest

\* SpecIssued with every task resumed in the end
SpecIssuedFair ==
    Init /\ [][NextIssued]_vars /\ \A t \in TaskIds : WF_vars(PollerOf(t))

-----------------------------------------------------------------------------
(* SpecRaced.  raced holds [client, key, stage]: the unsubscribe of        *)
(* `client`, still suspended in its send, took the last subscriber of      *)
(* `key` away (stage "last"); a subscribe naming the key has been          *)
(* processed for a registered connection since (stage "raced").            *)

NextRaced ==
    \/ \E c \in Clients : Connect(c) /\ UNCHANGED rest
    \/ \E c \in Clients : Idle(c) /\ Disconnect(c) /\ UNCHANGED rest
    \/ \E c \in Clients, ty \in RequestedTypes, coins \in CoinLists :
           /\ Idle(c)
           /\ Subscribe(c, ty, coins)
           /\ raced' = {IF Registered(c) /\ r.key[1] = ty
                           /\ r.key[2] \in SeqToSet(coins)
                        THEN [r EXCEPT !.stage = "raced"] ELSE r : r \in raced}
           /\ UNCHANGED <<issued, owed, journal>>
    \/ \E c \in Clients, ty \in RequestedTypes :
           /\ Idle(c)
           /\ Unsubscribe(c, ty)
           /\ raced' = raced \cup
                  {[client |-> c, key |-> <<ty, coin>>, stage |-> "last"] :
                      coin \in {x \in watched_coins[c] :
                          /\ Registered(c)
                          /\ ty \in subscriptions[c]
                          /\ ~HasSubscribers(active_connections, ty, x)'}}
           /\ UNCHANGED <<issued, owed, journal>>
    \/ \E call \in calls :
           /\ UnsubscribeReturn(call)
           /\ raced' = {r \in raced : ~(r.client = call.client
                                        /\ r.key[1] = call.stype)}
           /\ UNCHANGED <<issued, owed, journal>>
    \/ \E t \in TaskIds, data \in Prices : FetchData(t, data) /\ UNCHANGED rest
    \/ \E t \in TaskIds : SendReturn(t) /\ UNCHANGED rest
    \/ PollerStep /\ UNCHANGED rest

SpecRaced == Init /\ [][NextRaced]_vars

-----------------------------------------------------------------------------
(* SpecOwed.  owed holds <<t, c>>: c matched the broadcast that task t is  *)
(* in when that broadcast started, has stayed registered and subscribed    *)
(* since, and has not been sent the message yet.  A cancelled broadcast    *)
(* owes nothing, and the record of a broadcast ends at the loop's next     *)
(* fetch.                                                                  *)

NextOwed ==
    \/ \E c \in Clients : Connect(c) /\ UNCHANGED rest
    \/ \E c \in Clients :
           /\ Idle(c)
           /\ Disconnect(c)
           /\ owed' = {p \in owed : p[2] # c /\ tasks'[p[1]].pc # "cancelling"}
           /\ UNCHANGED <<issued, raced, journal>>
    \/ \E c \in Clients, ty \in RequestedTypes, coins \in CoinLists :
           Idle(c) /\ Subscribe(c, ty, coins) /\ UNCHANGED rest
    \/ \E c \in Clients, ty \in RequestedTypes :
           /\ Idle(c)
           /\ Unsubscribe(c, ty)
           /\ owed' = {p \in owed :
                          ~(p[2] = c /\ LoopType(tasks[p[1]].loop) = ty)}
           /\ UNCHANGED <<issued, raced, journal>>
    \/ \E call \in calls :
           /\ UnsubscribeReturn(call)
           /\ owed' = {p \in owed : tasks'[p[1]].pc # "cancelling"}
           /\ UNCHANGED <<issued, raced, journal>>
    \/ \E t \in TaskIds, data \in Prices :
           /\ FetchData(t, data)
           /\ owed' = {<<t, c>> : c \in {x \in SeqToSet(active_connections) :
                            /\ Matches(x, LoopType(tasks[t].loop), tasks[t].coin)
                            /\ x # tasks'[t].target}}
                      \cup {p \in owed : p[1] # t}
           /\ UNCHANGED <<issued, raced, journal>>
    \/ \E t \in TaskIds :
           /\ SendReturn(t)
           /\ owed' = owed \ {<<t, tasks'[t].target>>}
           /\ UNCHANGED <<issued, raced, journal>>
    \/ \E t \in TaskIds :
           /\ TaskTick(t)
           /\ owed' = {p \in owed : p[1] # t}
           /\ UNCHANGED <<issued, raced, journal>>
    \/ \E t \in TaskIds : FetchNothing(t) /\ UNCHANGED rest
    \/ \E t \in TaskIds : TaskCancelled(t) /\ UNCHANGED rest

SpecOwed == Init /\ [][NextOwed]_vars

-----------------------------------------------------------------------------
(* SpecFailing.  SpecOwed with sends that fail: websocket.send_text raises *)
(* (the transport is closed), send_personal_message logs the exception and *)
(* returns.  failed holds <<t, c>>: the send to c of the broadcast task t  *)
(* is in, or has just ended, has failed; the record ends at the loop's     *)
(* next check for subscribers.                                             *)

\* all but owed and failed
unfailing == <<issued, raced, sent, wait, streak, fetched, serial, order,
               client_id, active_alert_monitors, monitors, due>>

\* the send raised: the `except Exception` of send_personal_message takes
\* it, and the broadcast goes on as after a send that went through
SendFails(t) ==
    /\ SendReturn(t)
    /\ failed' = failed \cup {<<t, tasks[t].target>>}

NextFailing ==
    \/ \E c \in Clients : Connect(c) /\ UNCHANGED rest
    \/ \E c \in Clients :
           /\ Idle(c)
           /\ Disconnect(c)
           /\ owed' = {p \in owed : p[2] # c /\ tasks'[p[1]].pc # "cancelling"}
           /\ UNCHANGED <<issued, raced, journal>>
    \/ \E c \in Clients, ty \in RequestedTypes, coins \in CoinLists :
           Idle(c) /\ Subscribe(c, ty, coins) /\ UNCHANGED rest
    \/ \E c \in Clients, ty \in RequestedTypes :
           /\ Idle(c)
           /\ Unsubscribe(c, ty)
           /\ owed' = {p \in owed :
                          ~(p[2] = c /\ LoopType(tasks[p[1]].loop) = ty)}
           /\ UNCHANGED <<issued, raced, journal>>
    \/ \E call \in calls :
           /\ UnsubscribeReturn(call)
           /\ owed' = {p \in owed : tasks'[p[1]].pc # "cancelling"}
           /\ UNCHANGED <<issued, raced, journal>>
    \/ \E t \in TaskIds, data \in Prices :
           /\ FetchData(t, data)
           /\ owed' = {<<t, c>> : c \in {x \in SeqToSet(active_connections) :
                            /\ Matches(x, LoopType(tasks[t].loop), tasks[t].coin)
                            /\ x # tasks'[t].target}}
                      \cup {p \in owed : p[1] # t}
           /\ UNCHANGED <<issued, raced, journal>>
    \/ \E t \in TaskIds :
           /\ SendReturn(t)
           /\ owed' = owed \ {<<t, tasks'[t].target>>}
           /\ UNCHANGED <<issued, raced, journal>>
    \/ \E t \in TaskIds :
           /\ SendFails(t)
           /\ owed' = owed \ {<<t, tasks'[t].target>>}
           /\ UNCHANGED unfailing
    \/ \E t \in TaskIds :
           /\ TaskTick(t)
           /\ owed' = {p \in owed : p[1] # t}
           /\ failed' = {p \in failed : p[1] # t}
           /\ UNCHANGED unfailing
    \/ \E t \in TaskIds : FetchNothing(t) /\ UNCHANGED rest
    \/ \E t \in TaskIds :
           /\ TaskCancelled(t)
           /\ failed' = {p \in failed : p[1] # t}
           /\ UNCHANGED <<history, unfailing>>

SpecFailing == Init /\ [][NextFailing]_vars
-----------------------------------------------------------------------------
(* SpecSerial.  The hub under a caller that makes a subscribe_client call  *)
(* on a connection while an unsubscribe_client call on the same connection *)
(* and type is suspended in its send; nothing else runs between the        *)
(* beginning and the end of that unsubscribe.  serial holds one record of  *)
(* the race: what the hub was like when the unsubscribe began, and the     *)
(* coins of the subscribe.                                                 *)

\* the task keys of a coin list under a type
KeysOf(subscription_type, coins) ==
    IF subscription_type = NEWS_UPDATES THEN {NewsKey}
    ELSE {FeedKeyOf(subscription_type, coin) : coin \in SeqToSet(coins)}

\* the keys whose task is running its loop
RunningKeys == {key \in DOMAIN update_tasks : Live(tasks[update_tasks[key]])}

\* every key _start_update_tasks can make of the coins
AllKeys == UNION {KeysOf(ty, <<coin>>) : ty \in RequestedTypes, coin \in Coins}

NextSerial ==
    \/ \E c \in Clients : serial = {} /\ Connect(c) /\ UNCHANGED rest
    \/ \E c \in Clients : serial = {} /\ Idle(c) /\ Disconnect(c) /\ UNCHANGED rest
    \/ \E c \in Clients, ty \in RequestedTypes, coins \in CoinLists :
           /\ serial = {}
           /\ Idle(c)
           /\ Subscribe(c, ty, coins)
           /\ UNCHANGED rest
    \/ \E c \in Clients, ty \in RequestedTypes :
           /\ serial = {}
           /\ Idle(c)
           /\ ty \in subscriptions[c]
           /\ Unsubscribe(c, ty)
           /\ serial' = {[client |-> c, stype |-> ty,
                          keys |-> DOMAIN update_tasks,
                          running |-> RunningKeys,
                          unused |-> {key \in AllKeys :
                                         KeyUnused(active_connections, key)'},
                          coins |-> <<>>, raced |-> FALSE]}
           /\ UNCHANGED <<history, sent, wait, streak, fetched, extra>>
    \/ \E r \in serial, coins \in CoinLists :
           /\ ~r.raced
           /\ Subscribe(r.client, r.stype, coins)
           /\ serial' = {[r EXCEPT !.coins = coins, !.raced = TRUE]}
           /\ UNCHANGED <<history, sent, wait, streak, fetched, extra>>
    \/ \E call \in calls :
           /\ UnsubscribeReturn(call)
           /\ serial' = {}
           /\ UNCHANGED <<history, sent, wait, streak, fetched, extra>>
    \/ \E t \in TaskIds, data \in Prices :
           serial = {} /\ FetchData(t, data) /\ UNCHANGED rest
    \/ \E t \in TaskIds : serial = {} /\ SendReturn(t) /\ UNCHANGED rest
    \/ serial = {} /\ PollerStep /\ UNCHANGED rest

SpecSerial == Init /\ [][NextSerial]_vars

-----------------------------------------------------------------------------
(* SpecEndpoint.  The hub under websocket_endpoint with what it hands out: *)
(* sent[c] is the last message given to the websocket of c, and           *)
(* fetched[t] the data of the last successful fetch of task t (the local   *)
(* variable of its loop).                                                  *)

\* the one connection of SpecEndpoint and of SpecBackoff
EndpointClients == {"c1"}

\* the types the clients of SpecEndpoint ask for, and a text that is no
\* SubscriptionType value
EndpointTypes == {PRICE_UPDATES}
UnknownType == "unknown"

\* the messages, with the fields the claims read
Established == [type |-> "connection_established"]
SubscriptionConfirmed(subscription_type) ==
    [type |-> "subscription_confirmed", subscription_type |-> subscription_type]
UnsubscriptionConfirmed(subscription_type) ==
    [type |-> "unsubscription_confirmed", subscription_type |-> subscription_type]
UpdateMessage(task, data) ==
    [type |-> IF task.loop = "price" THEN "price_update"
              ELSE IF task.loop = "indicators"
              THEN "technical_indicators_update" ELSE "news_update",
     coin |-> task.coin, data |-> data]
\* get_current_prices: the coins asked for that are in price_cache
CurrentPrices(coins) ==
    [type |-> "current_prices",
     data |-> [coin \in SeqToSet(coins) \cap DOMAIN price_cache |->
                  price_cache[coin]]]

\* sent after a step in which task t may have begun a send
SentBy(t, data) ==
    IF tasks'[t].pc = "send"
    THEN [sent EXCEPT ![tasks'[t].target] = UpdateMessage(tasks[t], data)]
    ELSE sent

\* SubscriptionType(message.get("subscription_type")) raises ValueError for
\* a text that is no value of the enum; the handler's `except Exception`
\* calls disconnect and the handler ends
SubscribeMessage(c, value, coins) ==
    IF value \in SubscriptionType
    THEN /\ Subscribe(c, value, coins)
         /\ sent' = [sent EXCEPT ![c] = SubscriptionConfirmed(value)]
    ELSE /\ Disconnect(c)
         /\ sent' = sent

\* the get_current_prices message
GetCurrentPrices(c, coins) ==
    /\ sent' = [sent EXCEPT ![c] = CurrentPrices(coins)]
    /\ UNCHANGED hub

\* the fetch returns data: the loop keeps it in its local variable and
\* the broadcast hands the update to its first recipient
FetchDelivers(t, data) ==
    /\ FetchData(t, data)
    /\ fetched' = [fetched EXCEPT ![t] = data]
    /\ sent' = SentBy(t, data)

\* a send of the broadcast is over: the update goes to the next recipient
SendDelivers(t) ==
    /\ SendReturn(t)
    /\ sent' = SentBy(t, fetched[t])
    /\ UNCHANGED fetched

NextEndpoint ==
    \/ \E c \in EndpointClients :
           /\ Connect(c)
           /\ sent' = [sent EXCEPT ![c] = Established]
           /\ UNCHANGED <<history, wait, streak, fetched, serial, extra>>
    \/ \E c \in EndpointClients, value \in EndpointTypes \cup {UnknownType},
          coins \in CoinLists :
           /\ Idle(c)
           /\ SubscribeMessage(c, value, coins)
           /\ UNCHANGED <<history, wait, streak, fetched, serial, extra>>
    \/ \E c \in EndpointClients : Idle(c) /\ Disconnect(c) /\ UNCHANGED rest
    \/ \E c \in EndpointClients, ty \in EndpointTypes :
           /\ Idle(c)
           /\ Unsubscribe(c, ty)
           /\ sent' = [sent EXCEPT ![c] = UnsubscriptionConfirmed(ty)]
           /\ UNCHANGED <<history, wait, streak, fetched, serial, extra>>
    \/ \E call \in calls : UnsubscribeReturn(call) /\ UNCHANGED rest
    \/ \E c \in EndpointClients, coins \in CoinLists :
           /\ Idle(c)
           /\ GetCurrentPrices(c, coins)
           /\ UNCHANGED <<history, wait, streak, fetched, serial, extra>>
    \/ \E t \in TaskIds, data \in Prices :
           FetchDelivers(t, data) /\ UNCHANGED <<history, wait, streak, serial, extra>>
    \/ \E t \in TaskIds :
           SendDelivers(t) /\ UNCHANGED <<history, wait, streak, serial, extra>>
    \/ PollerStep /\ UNCHANGED rest

SpecEndpoint == Init /\ [][NextEndpoint]_vars

-----------------------------------------------------------------------------
(* SpecBackoff.  The hub under websocket_endpoint with the sleeps of the   *)
(* update loops: wait[t] is the delay of the asyncio.sleep task t last     *)
(* began, and streak[t] counts the fetches of t that failed in a row       *)
(* before the pass of the loop that t is in.                               *)

\* fetches in a row that are counted
MaxStreak == 3

\* the types the clients of SpecBackoff ask for
BackoffTypes == {PRICE_UPDATES, TECHNICAL_INDICATORS}

\* asyncio.sleep at the end of a pass of the loop
Interval(loop) ==
    IF loop = "price" THEN 30 ELSE IF loop = "indicators" THEN 120 ELSE 300

\* asyncio.sleep in the `except Exception` handler of the loop
ErrorInterval(loop) ==
    IF loop = "price" THEN 60 ELSE IF loop = "indicators" THEN 300 ELSE 600

\* wait after a step in which task t may have begun its normal sleep
WaitBy(t) ==
    IF tasks'[t].pc = "sleep"
    THEN [wait EXCEPT ![t] = Interval(tasks[t].loop)]
    ELSE wait

\* streak after a step of a pass whose fetch returned data: the failures in
\* a row are over when the pass is
StreakBy(t) ==
    IF tasks'[t].pc = "sleep" THEN [streak EXCEPT ![t] = 0] ELSE streak

\* the fetch returns data
FetchSucceeds(t, data) ==
    /\ FetchData(t, data)
    /\ streak' = StreakBy(t)
    /\ wait' = WaitBy(t)

\* the fetch returns nothing: None from _fetch_price_data (which catches
\* every exception of the request), success false, no new article; the
\* pass ends in the loop's normal sleep
FetchNone(t) ==
    /\ FetchNothing(t)
    /\ streak[t] < MaxStreak
    /\ streak' = [streak EXCEPT ![t] = @ + 1]
    /\ wait' = [wait EXCEPT ![t] = Interval(tasks[t].loop)]

\* the fetch raises into the loop (get_price_history, get_crypto_news):
\* the `except Exception` handler logs and sleeps
FetchRaises(t) ==
    /\ FetchNothing(t)
    /\ tasks[t].loop # "price"
    /\ streak[t] < MaxStreak
    /\ streak' = [streak EXCEPT ![t] = @ + 1]
    /\ wait' = [wait EXCEPT ![t] = ErrorInterval(tasks[t].loop)]

\* a send of the broadcast is over
SendDone(t) ==
    /\ SendReturn(t)
    /\ wait' = WaitBy(t)
    /\ streak' = StreakBy(t)

NextBackoff ==
    \/ \E c \in EndpointClients : Connect(c) /\ UNCHANGED rest
    \/ \E c \in EndpointClients : Idle(c) /\ Disconnect(c) /\ UNCHANGED rest
    \/ \E c \in EndpointClients, ty \in BackoffTypes, coins \in CoinLists :
           Idle(c) /\ Subscribe(c, ty, coins) /\ UNCHANGED rest
    \/ \E c \in EndpointClients, ty \in BackoffTypes :
           Idle(c) /\ Unsubscribe(c, ty) /\ UNCHANGED rest
    \/ \E call \in calls : UnsubscribeReturn(call) /\ UNCHANGED rest
    \/ \E t \in TaskIds : TaskTick(t) /\ UNCHANGED rest
    \/ \E t \in TaskIds, data \in Prices :
           FetchSucceeds(t, data) /\ UNCHANGED <<history, sent, fetched, serial, extra>>
    \/ \E t \in TaskIds :
           FetchNone(t) /\ UNCHANGED <<history, sent, fetched, serial, extra>>
    \/ \E t \in TaskIds :
           FetchRaises(t) /\ UNCHANGED <<history, sent, fetched, serial, extra>>
    \/ \E t \in TaskIds :
           SendDone(t) /\ UNCHANGED <<history, sent, fetched, serial, extra>>
    \/ \E t \in TaskIds : TaskCancelled(t) /\ UNCHANGED rest

SpecBackoff == Init /\ [][NextBackoff]_vars

-----------------------------------------------------------------------------
(* SpecChurn: connections under websocket_endpoint that all subscribe to   *)
(* one and the same feed, and leave it by unsubscribe or disconnect.       *)

\* the feeds of a churn: a type and the coin list every subscribe carries
ChurnFeeds ==
    ({PRICE_UPDATES, TECHNICAL_INDICATORS} \X {<<coin>> : coin \in Coins})
        \cup {<<NEWS_UPDATES, <<>>>>}

\* nothing but the feed has been asked for so far
OnlyFeed(feed) ==
    /\ \A c \in Clients : /\ subscriptions[c] \subseteq {feed[1]}
                          /\ watched_coins[c] \subseteq SeqToSet(feed[2])
    /\ \A t \in DOMAIN tasks : LoopType(tasks[t].loop) = feed[1]

NextChurn ==
    \/ \E c \in Clients : Connect(c) /\ UNCHANGED rest
    \/ \E c \in Clients : Idle(c) /\ Disconnect(c) /\ UNCHANGED rest
    \/ \E c \in Clients, feed \in ChurnFeeds :
           /\ Idle(c)
           /\ OnlyFeed(feed)
           /\ Subscribe(c, feed[1], feed[2])
           /\ UNCHANGED rest
    \/ \E c \in Clients : \E ty \in subscriptions[c] :
           Idle(c) /\ Unsubscribe(c, ty) /\ UNCHANGED rest
    \/ \E call \in calls : UnsubscribeReturn(call) /\ UNCHANGED rest
    \/ \E t \in TaskIds, data \in Prices : FetchData(t, data) /\ UNCHANGED rest
    \/ \E t \in TaskIds : SendReturn(t) /\ UNCHANGED rest
    \/ PollerStep /\ UNCHANGED rest

SpecChurn == Init /\ [][NextChurn]_vars

-----------------------------------------------------------------------------
(* SpecNotify: the hub under connections that ask for the two feeds        *)
(* without a task per coin, news and alerts.  SpecAlert: the hub under     *)
(* send_alert, which monitor_price_alert calls with the user id of the     *)
(* alert.                                                                  *)

NotifyTypes == {NEWS_UPDATES, ALERTS}

\* the user ids alerts are created for
Users == {"u1", "u2"}

\* the payloads of an alert
Payloads == {"a1"}

\* Python's None
None == "None"

\* ClientSubscription.user_id: connect() builds the client object without
\* it, so it has the default of the dataclass, and nothing assigns it later
user_id(c) == None

AlertMessage(alert_data) == [type |-> "alert", data |-> alert_data]

\* the user a connection belongs to: the one whose alerts it asked for
UserOf(c) == IF c = "c1" THEN "u1" ELSE "u2"

\* send_alert: user_clients is a list of its own, built before the first
\* send, and every client in it is handed the message
SendAlert(user, alert_data) ==
    LET user_clients == {c \in SeqToSet(active_connections) :
                            /\ user_id(c) = user
                            /\ ALERTS \in subscriptions[c]}
    IN  /\ sent' = [c \in Clients |->
                       IF c \in user_clients THEN AlertMessage(alert_data)
                                             ELSE sent[c]]
        /\ UNCHANGED hub

\* send_alert under the record of the connections the alert is for: the
\* registered ones of the user that hold ALERTS at the call
AlertCall(user, alert_data) ==
    /\ SendAlert(user, alert_data)
    /\ due' = due \cup {<<c, alert_data>> : c \in
                   {c \in Clients : /\ Registered(c)
                                    /\ UserOf(c) = user
                                    /\ ALERTS \in subscriptions[c]}}
    /\ UNCHANGED <<history, wait, streak, fetched, serial, failed, order,
                   client_id, active_alert_monitors, monitors>>

NextNotify ==
    \/ \E c \in Clients : Connect(c) /\ UNCHANGED rest
    \/ \E c \in Clients : Idle(c) /\ Disconnect(c) /\ UNCHANGED rest
    \/ \E c \in Clients, ty \in NotifyTypes, coins \in CoinLists :
           Idle(c) /\ Subscribe(c, ty, coins) /\ UNCHANGED rest
    \/ \E c \in Clients, ty \in NotifyTypes :
           Idle(c) /\ Unsubscribe(c, ty) /\ UNCHANGED rest
    \/ \E call \in calls : UnsubscribeReturn(call) /\ UNCHANGED rest
    \/ \E t \in TaskIds, data \in Prices : FetchData(t, data) /\ UNCHANGED rest
    \/ \E t \in TaskIds : SendReturn(t) /\ UNCHANGED rest
    \/ PollerStep /\ UNCHANGED rest

SpecNotify == Init /\ [][NextNotify]_vars

-----------------------------------------------------------------------------
(* SpecOrder.  The fetches of a behaviour are numbered as they return:     *)
(* order.made counts them, order.carried[t] is the number of the fetch     *)
(* whose data task t broadcasts, and order.got[<<c, key>>] the number of   *)
(* the fetch whose update of the feed `key` client c was handed last.      *)

\* fetches that return data in one behaviour
MaxFetches == 3

\* the feed the connections ask for
OrderFeed == <<TECHNICAL_INDICATORS, <<<<"btc">>>>>>

With(f, k, v) == [x \in DOMAIN f \cup {k} |-> IF x = k THEN v ELSE f[x]]

\* order.got after a step in which task t may have begun a send of fetch n
GotBy(t, n) ==
    IF tasks'[t].pc = "send"
    THEN With(order.got, <<tasks'[t].target, KeyOfTask(tasks[t])>>, n)
    ELSE order.got

FetchNumbered(t, data) ==
    /\ order.made < MaxFetches
    /\ FetchData(t, data)
    /\ order' = [made |-> order.made + 1,
                 carried |-> With(order.carried, t, order.made + 1),
                 got |-> GotBy(t, order.made + 1)]

SendNumbered(t) ==
    /\ SendReturn(t)
    /\ order' = [order EXCEPT !.got = GotBy(t, order.carried[t])]

\* all but order
unordered == <<history, sent, wait, streak, fetched, serial, failed,
               client_id, active_alert_monitors, monitors, due>>

NextOrder ==
    \/ \E c \in Clients : Connect(c) /\ UNCHANGED rest
    \/ \E c \in Clients : Idle(c) /\ Disconnect(c) /\ UNCHANGED rest
    \/ \E c \in Clients :
           Idle(c) /\ Subscribe(c, OrderFeed[1], OrderFeed[2]) /\ UNCHANGED rest
    \/ \E c \in Clients :
           Idle(c) /\ Unsubscribe(c, OrderFeed[1]) /\ UNCHANGED rest
    \/ \E call \in calls : UnsubscribeReturn(call) /\ UNCHANGED rest
    \/ \E t \in TaskIds, data \in Prices :
           FetchNumbered(t, data) /\ UNCHANGED unordered
    \/ \E t \in TaskIds : SendNumbered(t) /\ UNCHANGED unordered
    \/ PollerStep /\ UNCHANGED rest

SpecOrder == Init /\ [][NextOrder]_vars

-----------------------------------------------------------------------------
(* SpecIds: the hub under websocket_endpoint, which is mounted at          *)
(* /ws/{client_id} and passes the path parameter of the request to         *)
(* connect.                                                                *)

\* the texts a request may carry in its path
PathIds == {"web", "mobile"}

\* connect(websocket, client_id): the client object is built with the id of
\* the request
ConnectAs(c, id) ==
    /\ Connect(c)
    /\ client_id' = [client_id EXCEPT ![c] = id]

NextIds ==
    \/ \E c \in Clients, id \in PathIds :
           /\ ConnectAs(c, id)
           /\ UNCHANGED <<history, sent, wait, streak, fetched, serial, failed,
                          order, active_alert_monitors, monitors, due>>
    \/ \E c \in Clients : Idle(c) /\ Disconnect(c) /\ UNCHANGED rest
    \/ \E c \in Clients, ty \in RequestedTypes, coins \in CoinLists :
           Idle(c) /\ Subscribe(c, ty, coins) /\ UNCHANGED rest
    \/ \E c \in Clients, ty \in RequestedTypes :
           Idle(c) /\ Unsubscribe(c, ty) /\ UNCHANGED rest
    \/ \E call \in calls : UnsubscribeReturn(call) /\ UNCHANGED rest
    \/ \E t \in TaskIds, data \in Prices : FetchData(t, data) /\ UNCHANGED rest
    \/ \E t \in TaskIds : SendReturn(t) /\ UNCHANGED rest
    \/ PollerStep /\ UNCHANGED rest

SpecIds == Init /\ [][NextIds]_vars

-----------------------------------------------------------------------------
(* SpecMonitors: the alert endpoints of simple_backend.py.  An alert id is *)
(* f"alert_{hash(user, coin, target)}": one id per (user, coin, target),   *)
(* whatever the condition, and the same id for every alert created with    *)
(* that triple.  monitors holds every monitor_price_alert task created so   *)
(* far: its alert id, where it is, and whether its alert_data is in         *)
(* user_alerts.                                                             *)

\* monitor tasks ever created in one behaviour
MaxMonitors == 3

MonitorIds == 1..MaxMonitors

\* the ids of the (user, coin, target) triples alerts are created for
AlertIds == {"alert_1", "alert_2"}

\* alert_data["user_id"] of the alerts of an id
UserOfAlert(alert_id) == IF alert_id = "alert_1" THEN "u1" ELSE "u2"

\* all but the monitors and what send_alert hands out
unalerted == <<hub, history, wait, streak, fetched, serial, failed, order,
               client_id, due>>

\* `if alert_id in active_alert_monitors: del active_alert_monitors[alert_id]`
Deregister(alert_id) ==
    [k \in DOMAIN active_alert_monitors \ {alert_id} |->
        active_alert_monitors[k]]

\* create_price_alert: the alert is stored, the task created and put in the
\* registry under the id, over whatever was there
CreateAlert(alert_id) ==
    /\ Len(monitors) < MaxMonitors
    /\ monitors' = Append(monitors, [alert_id |-> alert_id, pc |-> "start",
                                     listed |-> TRUE])
    /\ active_alert_monitors' =
           With(active_alert_monitors, alert_id, Len(monitors) + 1)
    /\ UNCHANGED <<unalerted, sent>>

\* Task.cancel() on a monitor: a task that has not run yet never enters its
\* coroutine; another one is resumed with CancelledError
CancelMonitor(monitor) ==
    IF monitor.pc = "done" THEN monitor
    ELSE IF monitor.pc = "start" THEN [monitor EXCEPT !.pc = "done"]
    ELSE [monitor EXCEPT !.pc = "cancelling"]

\* delete_alert: the registered task is cancelled and its entry deleted, and
\* the alerts of the id leave user_alerts
DeleteAlert(alert_id) ==
    /\ active_alert_monitors' = Deregister(alert_id)
    /\ monitors' =
           [m \in DOMAIN monitors |->
               LET monitor ==
                       IF /\ alert_id \in DOMAIN active_alert_monitors
                          /\ active_alert_monitors[alert_id] = m
                       THEN CancelMonitor(monitors[m]) ELSE monitors[m]
               IN  IF monitor.alert_id = alert_id
                   THEN [monitor EXCEPT !.listed = FALSE] ELSE monitor]
    /\ UNCHANGED <<unalerted, sent>>

\* the monitor is resumed at the top of its while loop (its first run, or
\* its sleep is over) and awaits the fetch of the price
MonitorTick(m) ==
    /\ m \in DOMAIN monitors
    /\ monitors[m].pc \in {"start", "sleep"}
    /\ monitors' = [monitors EXCEPT ![m].pc = "fetch"]
    /\ UNCHANGED <<unalerted, sent, active_alert_monitors>>

\* the fetch gave no price, or one that does not meet the condition
MonitorWaits(m) ==
    /\ m \in DOMAIN monitors
    /\ monitors[m].pc = "fetch"
    /\ monitors' = [monitors EXCEPT ![m].pc = "sleep"]
    /\ UNCHANGED <<unalerted, sent, active_alert_monitors>>

\* the condition is met: the alert is marked triggered and send_alert is
\* called with the user id of the alert
MonitorTriggers(m, alert_data) ==
    /\ m \in DOMAIN monitors
    /\ monitors[m].pc = "fetch"
    /\ SendAlert(UserOfAlert(monitors[m].alert_id), alert_data)
    /\ monitors' = [monitors EXCEPT ![m].pc = "send"]
    /\ UNCHANGED <<history, wait, streak, fetched, serial, failed, order,
                   client_id, due, active_alert_monitors>>

\* the monitor ends: send_alert has returned and the loop breaks, or the
\* price data raised, or the task takes its CancelledError; the `finally`
\* deletes the entry of the id
MonitorEnds(m) ==
    /\ m \in DOMAIN monitors
    /\ monitors[m].pc \in {"fetch", "send", "cancelling"}
    /\ monitors' = [monitors EXCEPT ![m].pc = "done"]
    /\ active_alert_monitors' = Deregister(monitors[m].alert_id)
    /\ UNCHANGED <<unalerted, sent>>

NextMonitors ==
    \/ \E alert_id \in AlertIds : CreateAlert(alert_id)
    \/ \E alert_id \in AlertIds : DeleteAlert(alert_id)
    \/ \E m \in MonitorIds : MonitorTick(m)
    \/ \E m \in MonitorIds : MonitorWaits(m)
    \/ \E m \in MonitorIds, alert_data \in Payloads :
           MonitorTriggers(m, alert_data)
    \/ \E m \in MonitorIds : MonitorEnds(m)

SpecMonitors == Init /\ [][NextMonitors]_vars

\* SpecAlert: connections that ask for alerts, and send_alert
NextAlert ==
    \/ \E c \in Clients : Connect(c) /\ UNCHANGED rest
    \/ \E c \in Clients : Idle(c) /\ Disconnect(c) /\ UNCHANGED rest
    \/ \E c \in Clients, coins \in CoinLists :
           Idle(c) /\ Subscribe(c, ALERTS, coins) /\ UNCHANGED rest
    \/ \E c \in Clients : Idle(c) /\ Unsubscribe(c, ALERTS) /\ UNCHANGED rest
    \/ \E call \in calls : UnsubscribeReturn(call) /\ UNCHANGED rest
    \/ \E user \in Users, alert_data \in Payloads : AlertCall(user, alert_data)

SpecAlert == Init /\ [][NextAlert]_vars

-----------------------------------------------------------------------------
(* What the claims say *)

\* the task key of a (type, coin) pair of the two per-coin feeds
FeedKey(subscription_type, coin) ==
    IF subscription_type = PRICE_UPDATES THEN PriceKey(coin)
                                         ELSE IndicatorsKey(coin)

\* a poller for the key is running: stored in update_tasks and still live
PollerRunning(key) ==
    key \in DOMAIN update_tasks /\ Live(tasks[update_tasks[key]])

\* C1: at most one live update task (not finished, not asked to cancel)
\* exists for any task key, in every reachable state.
C1_AtMostOneLiveTaskPerKey ==
    \A t1, t2 \in DOMAIN tasks :
        (/\ Live(tasks[t1])
         /\ Live(tasks[t2])
         /\ KeyOfTask(tasks[t1]) = KeyOfTask(tasks[t2])) => t1 = t2

\* a key has had two tasks: the earlier one is over, the later one is live
C1_Witness ==
    \E t1, t2 \in DOMAIN tasks :
        /\ t1 # t2
        /\ KeyOfTask(tasks[t1]) = KeyOfTask(tasks[t2])
        /\ ~Live(tasks[t1])
        /\ Live(tasks[t2])

\* the coin _cleanup_unused_tasks reads out of the pair's task key is the
\* coin the key was built from
KeyReadsBack(subscription_type, coin) ==
    Replace(FeedKey(subscription_type, coin),
            IF subscription_type = PRICE_UPDATES THEN "price_"
                                                 ELSE "indicators_") = coin

\* C2: every (PRICE_UPDATES or TECHNICAL_INDICATORS, coin) that some
\* registered connection has in its subscriptions and watched coins has a
\* poller stored in update_tasks that has not finished.  Stated for the
\* coins whose task key reads back, to set it apart from C29.
C2_SubscribedKeyHasRunningPoller ==
    \A ty \in {PRICE_UPDATES, TECHNICAL_INDICATORS}, coin \in Coins :
        (KeyReadsBack(ty, coin) /\ HasSubscribers(active_connections, ty, coin))
            => /\ FeedKey(ty, coin) \in DOMAIN update_tasks
               /\ ~Finished(tasks[update_tasks[FeedKey(ty, coin)]])

\* C3: when a subscribe naming key K is processed while the unsubscribe
\* that took K's last subscriber away is suspended in its send, then at the
\* return of that unsubscribe K, which has a subscriber, has a running
\* poller.  Stated for the coins whose task key reads back (see C2).
C3_RacedKeyKeepsOnePoller ==
    [][\A call \in calls :
          UnsubscribeReturn(call) =>
              \A r \in raced :
                  (/\ r.client = call.client
                   /\ r.key[1] = call.stype
                   /\ r.stage = "raced"
                   /\ KeyReadsBack(r.key[1], r.key[2])
                   /\ HasSubscribers(active_connections, r.key[1], r.key[2])')
                      => PollerRunning(FeedKey(r.key[1], r.key[2]))']_vars

\* the feed's task key, and whether a registered connection counts as its
\* subscriber
ChurnKey(feed) ==
    IF feed[1] = NEWS_UPDATES THEN NewsKey ELSE FeedKey(feed[1], feed[2][1])
ChurnHasSubscribers(feed) ==
    IF feed[1] = NEWS_UPDATES
    THEN HasNewsSubscribers(active_connections)
    ELSE HasSubscribers(active_connections, feed[1], feed[2][1])

\* C4: from the empty hub, when connections have subscribed to one feed and
\* each has left it by unsubscribe or disconnect, in any interleaving with
\* each other and with the poller, then once no call is suspended and no
\* registered connection counts as a subscriber of the feed, update_tasks
\* has no entry for it.
C4_NoLeakOnChurn ==
    \A feed \in ChurnFeeds :
        (calls = {} /\ ~ChurnHasSubscribers(feed))
            => ChurnKey(feed) \notin DOMAIN update_tasks

\* two connections subscribed to the feed, whose poller was created; one has
\* unsubscribed and one has disconnected, and every call has returned
C4_Witness ==
    /\ calls = {}
    /\ tasks # <<>>
    /\ \E c1, c2 \in clients :
           /\ Registered(c1) /\ ~Registered(c2)
           /\ watched_coins[c1] # {} /\ watched_coins[c1] = watched_coins[c2]
           /\ subscriptions[c1] = {} /\ subscriptions[c2] # {}

\* C5: a second disconnect(client) right after the first changes nothing:
\* in the state a disconnect leaves, list.remove is skipped and the cleanup
\* collects no key, so active_connections, update_tasks and every task stay
\* as they are (subscriptions and watched coins are not written at all).
C5_SecondDisconnectChangesNothing ==
    [][\A c \in Clients :
          Disconnect(c) =>
              (/\ RemoveClient(active_connections, c) = active_connections
               /\ CleanupUpdateTasks(active_connections) = update_tasks
               /\ CleanupTasks(active_connections) = tasks)']_vars

\* a connection has been disconnected, which stopped a poller, while the
\* poller of another key, which still has a subscriber, runs on
C5_Witness ==
    /\ \E c \in clients : ~Registered(c) /\ subscriptions[c] # {}
    /\ \E t \in DOMAIN tasks : tasks[t].pc \in {"cancelling", "cancelled"}
    /\ \E key \in DOMAIN update_tasks : PollerRunning(key)

\* a step stops the poller t
Stops(t) == Live(tasks[t]) /\ ~Live(tasks'[t])

\* a registered connection counts as a subscriber of the feed the poller t
\* publishes
TaskHasSubscribers(conns, task) ==
    IF task.loop = "news" THEN HasNewsSubscribers(conns)
    ELSE HasSubscribers(conns, LoopType(task.loop), task.coin)

\* the cleanup of a step left the pollers as the subscribers need them: none
\* whose feed still has a subscriber was stopped, and none whose feed has no
\* subscriber is still in update_tasks
CleanupKeepsTheNeeded ==
    /\ \A t \in DOMAIN tasks :
           Stops(t) => ~TaskHasSubscribers(active_connections', tasks[t])
    /\ \A key \in DOMAIN update_tasks' :
           TaskHasSubscribers(active_connections', tasks[update_tasks'[key]])

\* C6: when disconnect(client) runs while an unsubscribe of the same client
\* is suspended in its send, the disconnect's cleanup and the cleanup the
\* unsubscribe runs afterwards stop and remove the pollers of the keys that
\* lost their last subscriber, and stop no poller of a key another
\* connection still subscribes to.
C6_DisconnectDuringUnsubscribe ==
    [][/\ \A c \in Clients :
             (Disconnect(c) /\ \E call \in calls : call.client = c)
                 => CleanupKeepsTheNeeded
       /\ \A call \in calls :
             (UnsubscribeReturn(call) /\ ~Registered(call.client))
                 => CleanupKeepsTheNeeded]_vars

\* C7: a poller starts a send of an update for a coin only to a connection
\* that asked for that (type, coin) pair in a subscribe still in force.
C7_SendsOnlyToIssuedPairs ==
    [][\A t \in DOMAIN tasks :
          (/\ tasks'[t].pc = "send"
           /\ tasks'[t] # tasks[t]
           /\ tasks'[t].loop # "news")
              => <<LoopType(tasks'[t].loop), tasks'[t].coin>>
                     \in issued'[tasks'[t].target]]_vars

\* C8: a connection that matched when the broadcast began, and has neither
\* unsubscribed nor disconnected since, is still to be sent to only while
\* the broadcast runs: the broadcast does not end, or pass it by, without
\* sending to it.
C8_BroadcastServesSnapshot ==
    \A p \in owed :
        /\ tasks[p[1]].pc = "send"
        /\ \E i \in (tasks[p[1]].idx + 1)..Len(active_connections) :
               active_connections[i] = p[2]

\* C9: no delivery waits for another connection's send to complete: while a
\* poller is suspended in the send to one connection, no other matching
\* connection is still waiting for the same update.
C9_NoDeliveryWaitsBehindASend ==
    \A t \in DOMAIN tasks :
        tasks[t].pc = "send"
            => NextRecipient(tasks[t].idx + 1, LoopType(tasks[t].loop),
                             tasks[t].coin) = 0

\* C10: when an unsubscribe from technical_indicators completes, the poller
\* of a coin the connection watched that another connection still subscribes
\* to is still running and in update_tasks, and the poller of a coin with no
\* subscriber left is stopped and removed from update_tasks.
C10_LastUnsubscribeTearsDown ==
    [][\A call \in calls :
          (UnsubscribeReturn(call) /\ call.stype = TECHNICAL_INDICATORS)
              => \A coin \in watched_coins[call.client] :
                     LET key == IndicatorsKey(coin)
                     IN  /\ (/\ PollerRunning(key)
                             /\ HasSubscribers(active_connections,
                                               TECHNICAL_INDICATORS, coin))
                                => PollerRunning(key)'
                         /\ (/\ key \in DOMAIN update_tasks
                             /\ ~HasSubscribers(active_connections,
                                                TECHNICAL_INDICATORS, coin))
                                => /\ key \notin DOMAIN update_tasks'
                                   /\ ~Live(tasks'[update_tasks[key]])]_vars

\* C11: when disconnect(client) returns, the poller of every feed key whose
\* only subscriber was that client is cancelled and its entry is removed from
\* update_tasks, and the poller of every feed key that still has a
\* subscriber is as it was, under the same entry.
C11_DisconnectTearsDownOnlyItsOwn ==
    [][\A c \in Clients :
          Disconnect(c) =>
              \A key \in DOMAIN update_tasks :
                  LET t == update_tasks[key]
                  IN  /\ (/\ TaskHasSubscribers(active_connections, tasks[t])
                          /\ ~TaskHasSubscribers(active_connections', tasks[t]))
                             => /\ key \notin DOMAIN update_tasks'
                                /\ ~Live(tasks'[t])
                      /\ TaskHasSubscribers(active_connections', tasks[t])
                             => /\ key \in DOMAIN update_tasks'
                                /\ update_tasks'[key] = t
                                /\ tasks'[t] = tasks[t]]_vars

\* C12: a registered connection counts as a subscriber of (type, coin), for
\* delivery and for keeping a poller alive, exactly when it holds the pair by
\* its own requests: a subscribe of the type naming the coin has been made
\* since its last unsubscribe of the type.
C12_SubscriberIffIssued ==
    \A c \in Clients, ty \in {PRICE_UPDATES, TECHNICAL_INDICATORS},
       coin \in Coins :
        Registered(c) =>
            ((ty \in subscriptions[c] /\ coin \in watched_coins[c])
                <=> <<ty, coin>> \in issued[c])

\* C13: when a subscribe_client call on a connection is made while an
\* unsubscribe_client call on the same connection and type is suspended in
\* its send, then at the return of the unsubscribe the connection's
\* subscription to the type and the set of running pollers are those of one
\* of the serial orders: unsubscribe then subscribe (subscribed; the pollers
\* the unsubscribe keeps and those the subscribe then creates), or subscribe
\* then unsubscribe (not subscribed; the pollers the unsubscribe keeps).
\* Stated for the coins whose task key reads back, to set it apart from C29.
C13_RaceEqualsASerialOrder ==
    [][\A call \in calls :
          UnsubscribeReturn(call) =>
              \A r \in serial :
                  (/\ r.raced
                   /\ \A key \in DOMAIN update_tasks :
                          KeyReadsBack(r.stype, tasks[update_tasks[key]].coin))
                  =>
                      LET kept == r.running \ r.unused
                          new == KeysOf(r.stype, r.coins)
                      IN  \/ /\ r.stype \in subscriptions'[r.client]
                             /\ RunningKeys' =
                                    kept \cup (new \ (r.keys \ r.unused))
                          \/ /\ r.stype \notin subscriptions'[r.client]
                             /\ RunningKeys' =
                                    kept \cup ((new \ r.keys) \ r.unused)]_vars

\* a fetch of task t fails in this step
FetchFails(t) == FetchNone(t) \/ FetchRaises(t)

\* C14: when the fetch of a poller fails (no data, or an error), once or
\* several times in a row, the poller goes on running under its entry of
\* update_tasks and begins no send, nothing is handed to any websocket, and
\* the next fetch that succeeds is broadcast as ever: to the first matching
\* connection of the list.
C14_FailedFetchKeepsPoller ==
    [][\A t \in DOMAIN tasks :
          /\ FetchFails(t) =>
                 /\ Live(tasks'[t])
                 /\ tasks'[t].pc # "send"
                 /\ KeyOfTask(tasks[t]) \in DOMAIN update_tasks'
                 /\ update_tasks'[KeyOfTask(tasks[t])] = t
                 /\ sent' = sent
          /\ \A data \in Prices :
                 (FetchSucceeds(t, data) /\ streak[t] > 0)
                     => tasks'[t] = BroadcastFrom(tasks[t], 1)]_vars

\* the fetch of a poller failed three times in a row, the next one
\* succeeded and its update is being sent
C14_Witness ==
    \E t \in DOMAIN tasks :
        /\ streak[t] = MaxStreak
        /\ tasks[t].pc = "send"
        /\ tasks[t].target \in SeqToSet(active_connections)
        /\ update_tasks[KeyOfTask(tasks[t])] = t

\* C15: after a failed fetch the poller's wait is longer than the normal
\* interval of its loop, a further failure in a row does not shorten it and
\* the second one lengthens it, and the pass of a successful fetch ends in a
\* wait of the normal interval.
C15_BackoffGrowsAndResets ==
    [][\A t \in DOMAIN tasks :
          /\ FetchFails(t) =>
                 /\ wait'[t] > Interval(tasks[t].loop)
                 /\ streak[t] > 0 => wait'[t] >= wait[t]
                 /\ streak[t] = 1 => wait'[t] > wait[t]
          /\ (/\ SendDone(t) \/ \E data \in Prices : FetchSucceeds(t, data)
              /\ tasks'[t].pc = "sleep")
                 => wait'[t] = Interval(tasks[t].loop)]_vars

\* C16: on a hub that has created no task yet, the subscribe of a connected
\* client to price_updates for a coin leaves a running poller under
\* price_<coin>; each fetch of a price poller that returns data hands one
\* price_update with that data and the poller's coin to the websocket of the
\* subscribed connection, and when that send is over no further message is
\* handed out for the fetch.
C16_FreshSubscribeDelivers ==
    [][/\ \A c \in Clients, coin \in Coins :
             (/\ tasks = <<>>
              /\ Registered(c)
              /\ SubscribeMessage(c, PRICE_UPDATES, <<coin>>))
                 => PollerRunning(PriceKey(coin))'
       /\ \A t \in DOMAIN tasks, c \in Clients, data \in Prices :
             (/\ FetchDelivers(t, data)
              /\ tasks[t].loop = "price"
              /\ active_connections = <<c>>
              /\ Matches(c, PRICE_UPDATES, tasks[t].coin))
                 => /\ tasks'[t].pc = "send" /\ tasks'[t].target = c
                    /\ sent'[c] = [type |-> "price_update",
                                   coin |-> tasks[t].coin, data |-> data]
       /\ \A t \in DOMAIN tasks :
             (SendDelivers(t) /\ active_connections = <<tasks[t].target>>)
                 => tasks'[t].pc = "sleep" /\ sent' = sent]_vars

\* the one connection subscribed to price_updates for a coin, the poller
\* fetched data, the update was handed to the connection's websocket and the
\* poller went on to its sleep
C16_Witness ==
    \E t \in DOMAIN tasks, c \in Clients :
        /\ active_connections = <<c>>
        /\ tasks[t].loop = "price" /\ tasks[t].pc = "sleep"
        /\ PollerRunning(PriceKey(tasks[t].coin))
        /\ fetched[t] \in Prices
        /\ sent[c] = [type |-> "price_update", coin |-> tasks[t].coin,
                      data |-> fetched[t]]

\* C17: a subscribe message naming a text that is no subscription type is
\* turned down with the hub as it was: active_connections, the
\* subscriptions and watched coins of every connection, and update_tasks.
C17_UnknownTypeRejected ==
    [][\A c \in Clients, coins \in CoinLists :
          (Idle(c) /\ SubscribeMessage(c, UnknownType, coins))
              => UNCHANGED <<active_connections, subscriptions,
                             watched_coins, update_tasks>>]_vars

\* C18: subscribe_client, unsubscribe_client (to its send and from it on)
\* and disconnect on a client that has been disconnected leave
\* active_connections and update_tasks as they are.
C18_CallsOnDisconnectedAreNoOps ==
    [][\A c \in clients :
          (/\ ~Registered(c)
           /\ \/ Disconnect(c)
              \/ \E ty \in RequestedTypes, coins \in CoinLists :
                     Subscribe(c, ty, coins)
              \/ \E ty \in RequestedTypes : Unsubscribe(c, ty)
              \/ \E call \in calls :
                     call.client = c /\ UnsubscribeReturn(call))
              => UNCHANGED <<active_connections, update_tasks>>]_vars

\* C19: the reply to get_current_prices holds a value for a coin only while
\* update_tasks has a poller under the coin's price key.
C19_CurrentPricesOnlyWithPoller ==
    [][\A c \in Clients, coins \in CoinLists :
          (Idle(c) /\ GetCurrentPrices(c, coins))
              => \A coin \in DOMAIN sent'[c].data :
                     PriceKey(coin) \in DOMAIN update_tasks]_vars

\* the price tasks of a coin whose fetch has returned data
FetchedBy(coin) ==
    {t \in DOMAIN tasks : /\ tasks[t].loop = "price"
                          /\ tasks[t].coin = coin
                          /\ fetched[t] # NoData}

\* the task created last among those of a set
Latest(ts) == CHOOSE t \in ts : \A u \in ts : u <= t

\* C20: price_cache holds a coin exactly when a price fetch for the coin has
\* returned data, and then it holds the data of the most recent such fetch
\* (that of the coin's latest poller), also while that data is being
\* broadcast and after fetches that failed.
C20_CacheIsLastFetch ==
    \A coin \in Coins :
        IF FetchedBy(coin) = {}
        THEN coin \notin DOMAIN price_cache
        ELSE /\ coin \in DOMAIN price_cache
             /\ price_cache[coin] = fetched[Latest(FetchedBy(coin))]

\* two pollers of one coin, one after the other, fetched different data and
\* the cache holds the later one, which is being sent
C20_Witness ==
    \E coin \in Coins, t1, t2 \in DOMAIN tasks :
        /\ {t1, t2} \subseteq FetchedBy(coin)
        /\ t1 < t2 /\ fetched[t1] # fetched[t2]
        /\ tasks[t2].pc = "send"
        /\ price_cache[coin] = fetched[t2]

\* C21: send_alert(user, payload) hands the alert to every registered
\* connection of that user that is subscribed to ALERTS, and to no other
\* connection.
C21_AlertReachesTheUsersConnections ==
    \A c \in Clients, alert_data \in Payloads :
        <<c, alert_data>> \in due <=> sent[c] = AlertMessage(alert_data)

\* C22: a subscribe to ALERTS creates no task, a subscribe to NEWS_UPDATES
\* leaves at most one news task running, under the one key news_updates,
\* whatever coins it names; either way the type and the coins are recorded
\* on the subscribing connection.
C22_NoTaskPerAlertOneForNews ==
    [][\A c \in Clients, ty \in NotifyTypes, coins \in CoinLists :
           Subscribe(c, ty, coins) =>
               /\ ty \in subscriptions'[c]
               /\ SeqToSet(coins) \subseteq watched_coins'[c]
               /\ ty = ALERTS => tasks' = tasks /\ update_tasks' = update_tasks
               /\ DOMAIN update_tasks' \subseteq {NewsKey}
               /\ Cardinality({t \in DOMAIN tasks' : Live(tasks'[t])}) <= 1
      ]_vars

\* two connections hold news under different coin lists, one of them
\* alerts as well, and one news task runs
C22_Witness ==
    /\ NEWS_UPDATES \in subscriptions["c1"] \cap subscriptions["c2"]
    /\ ALERTS \in subscriptions["c1"]
    /\ watched_coins["c1"] # watched_coins["c2"]
    /\ watched_coins["c2"] # {}
    /\ Cardinality({t \in DOMAIN tasks : Live(tasks[t])}) = 1
    /\ NewsKey \in DOMAIN update_tasks

\* C23: when the send to one connection fails during a broadcast, the
\* poller keeps running and every other connection the broadcast still owes
\* the update remains to be sent to: the broadcast goes on, and the
\* connection sits at a position the loop has yet to visit.
C23_FailedSendSparesTheOthers ==
    [][\A t \in DOMAIN tasks :
           SendFails(t) =>
               /\ Live(tasks'[t])
               /\ \A p \in owed' :
                      p[1] = t =>
                          /\ tasks'[t].pc = "send"
                          /\ \E i \in (tasks'[t].idx + 1)..
                                     Len(active_connections') :
                                 active_connections'[i] = p[2]]_vars

\* C24: a connection the send to which failed during a broadcast is no
\* longer registered when that broadcast has ended and its loop sleeps.
C24_FailedSendDisconnects ==
    \A p \in failed :
        tasks[p[1]].pc = "sleep" => ~Registered(p[2])

\* C25: the updates of one feed key handed to one connection follow the
\* order of the fetches: no send hands a connection the data of an earlier
\* fetch than the one it was handed last.
C25_UpdatesInFetchOrder ==
    [][\A p \in DOMAIN order.got : order'.got[p] >= order.got[p]]_vars

\* a connection was served by a poller and, after that poller was replaced,
\* by its successor
C25_Witness ==
    \E p \in DOMAIN order.got :
        /\ 1 \in DOMAIN order.carried
        /\ 2 \in DOMAIN order.carried
        /\ order.got[p] = order.carried[2]
        /\ order.carried[1] < order.carried[2]

\* no connection holds, by its own requests, the feed task t publishes
NoneIssued(t) ==
    \A c \in Clients :
        <<LoopType(tasks[t].loop), tasks[t].coin>> \notin issued[c]

\* C26: a poller whose feed has no subscriber from some point on stops in
\* the end, whether or not a cleanup cancels it.
C26_UnsubscribedPollerStops ==
    \A t \in TaskIds :
        <>[](t \in DOMAIN tasks /\ NoneIssued(t))
            => <>(t \in DOMAIN tasks /\ ~Live(tasks[t]))

\* C27: a poller that was cancelled is out of update_tasks at once, while it
\* may still wait to be resumed; from its cancellation on it begins no
\* fetch, no send and no sleep, and its last step, in which it takes the
\* CancelledError, writes nothing to price_cache and sends nothing.
C27_CancelledPollerDoesNothingMore ==
    [][\A t \in DOMAIN tasks :
           tasks[t].pc \in {"cancelling", "cancelled"} =>
               /\ tasks'[t].pc \in {"cancelling", "cancelled"}
               /\ \A key \in DOMAIN update_tasks : update_tasks[key] # t
               /\ tasks'[t] # tasks[t] =>
                      /\ price_cache' = price_cache
                      /\ sent' = sent
                      /\ fetched' = fetched]_vars

\* a poller that has fetched and sent was cancelled and has ended
C27_Witness ==
    \E t \in DOMAIN tasks :
        /\ tasks[t].pc = "cancelled"
        /\ fetched[t] # NoData
        /\ tasks[t].coin \in DOMAIN price_cache

\* C28: no two connections registered at the same time have the same
\* client_id.
C28_RegisteredIdsDiffer ==
    \A c1, c2 \in Clients :
        (Registered(c1) /\ Registered(c2) /\ c1 # c2)
            => client_id[c1] # client_id[c2]

\* C29: a step removes a poller from update_tasks (and cancels it) only if
\* the feed it was started for has no subscriber after the step, whatever
\* the coin: the cleanup decides by the coin it reads out of the task key,
\* and that is the coin the task was started for.
C29_CleanupRemovesOnlyTheUnsubscribed ==
    [][\A key \in DOMAIN update_tasks :
           key \notin DOMAIN update_tasks' =>
               ~TaskHasSubscribers(active_connections',
                                   tasks[update_tasks[key]])]_vars

\* C30: every monitor that runs and has not been asked to cancel is the
\* one registered under its alert id: none runs on after its id was
\* deleted, and none is left out of the registry by another monitor.
C30_RunningMonitorIsRegistered ==
    \A m \in DOMAIN monitors :
        monitors[m].pc \in {"start", "fetch", "send", "sleep"} =>
            /\ monitors[m].alert_id \in DOMAIN active_alert_monitors
            /\ active_alert_monitors[monitors[m].alert_id] = m

====
